---- MODULE Spec2Model ----
(***************************************************************************)
(* Model of better-lucid's migration generator (generateLucidMigration and *)
(* its helpers in src/adapter.ts).                                         *)
(*                                                                         *)
(* Identifiers (table keys, table names, field keys, column names) are     *)
(* sequences of one-character strings, so that camelToSnake and the        *)
(* regular expression that re-reads a generated column line are computed   *)
(* character by character, as the code computes them.                      *)
(*                                                                         *)
(* Generated text is kept in structured form: a body is a sequence of      *)
(* items, one per element of the arrays the code joins with blank lines.   *)
(* An item records whether it is a comment line or executable code.        *)
(***************************************************************************)
EXTENDS Integers, Sequences, FiniteSets, TLC

(***************************************************************************)
(* Bounds of the model.                                                    *)
(***************************************************************************)
\* explicit `order` values are drawn from 1..MaxOrder
MaxOrder == 2
\* generation is invoked at most this many times against the same inputs
MaxRuns == 2
\* the callers that invoke generation concurrently
MaxCallers == 2
\* a list of where conditions has at most this many conditions
MaxWhere == 2
\* the middleware handles at most this many requests
MaxRequests == 2

(***************************************************************************)
(* Program constants.                                                      *)
(***************************************************************************)
\* (a.order ?? 999)
DefaultOrder == 999

(***************************************************************************)
(* Characters and identifiers.                                             *)
(***************************************************************************)
UpperAscii ==
  << "A", "B", "C", "D", "E", "F", "G", "H", "I", "J", "K", "L", "M",
     "N", "O", "P", "Q", "R", "S", "T", "U", "V", "W", "X", "Y", "Z" >>
LowerAscii ==
  << "a", "b", "c", "d", "e", "f", "g", "h", "i", "j", "k", "l", "m",
     "n", "o", "p", "q", "r", "s", "t", "u", "v", "w", "x", "y", "z" >>

\* [A-Z]
UpperSet == {UpperAscii[k] : k \in 1..Len(UpperAscii)}

IsUpperAscii(c) == c \in UpperSet

\* toLowerCase, character by character
LowerOf == [c \in UpperSet |-> LowerAscii[CHOOSE k \in 1..Len(UpperAscii) : UpperAscii[k] = c]]

\* toLowerCase is not limited to [A-Z]: an uppercase letter outside ASCII
LowerOfOther == [c \in {"É"} |-> "é"]

ToLowerChar(c) ==
  IF IsUpperAscii(c) THEN LowerOf[c]
  ELSE IF c \in DOMAIN LowerOfOther THEN LowerOfOther[c] ELSE c

\* the single quote, which delimits string literals in the generated code
Quote == "'"

\* identifiers used by the schema descriptions and catalogs of the model
N_id == << "i", "d" >>
N_user == << "u", "s", "e", "r" >>
N_users == << "u", "s", "e", "r", "s" >>
N_session == << "s", "e", "s", "s", "i", "o", "n" >>
N_account == << "a", "c", "c", "o", "u", "n", "t" >>
N_twoFactor == << "t", "w", "o", "F", "a", "c", "t", "o", "r" >>
N_name == << "n", "a", "m", "e" >>
N_email == << "e", "m", "a", "i", "l" >>
N_mail == << "m", "a", "i", "l" >>
N_userId == << "u", "s", "e", "r", "I", "d" >>
N_user_id == << "u", "s", "e", "r", "_", "i", "d" >>
N_sessionId == << "s", "e", "s", "s", "i", "o", "n", "I", "d" >>
N_session_id == << "s", "e", "s", "s", "i", "o", "n", "_", "i", "d" >>
N_memo == << "m", "e", "m", "o" >>
N_qx == << "q", "'", "x" >>
N_q == << "q" >>
N_empty == << >>
N_UserID == << "U", "s", "e", "r", "I", "D" >>
N_x_2 == << "x", "_", "2" >>
N_nomEte == << "n", "o", "m", "É", "t", "é" >>

(***************************************************************************)
(* camelToSnake: str.replace(/([A-Z])/g, '_$1').toLowerCase()              *)
(***************************************************************************)
RECURSIVE ReplaceUpper(_)
ReplaceUpper(str) ==
  IF str = << >> THEN << >>
  ELSE (IF IsUpperAscii(Head(str)) THEN << "_", Head(str) >> ELSE << Head(str) >>)
         \o ReplaceUpper(Tail(str))

ToLowerCase(str) == [k \in 1..Len(str) |-> ToLowerChar(str[k])]

camelToSnake(str) == ToLowerCase(ReplaceUpper(str))

(***************************************************************************)
(* Optional values: << >> is undefined, << v >> is the value v.            *)
(***************************************************************************)
Undefined == << >>
Some(v) == << v >>
IsDefined(o) == o # << >>
OrElse(o, d) == IF o # << >> THEN o[1] ELSE d

(***************************************************************************)
(* getColumnName: field.fieldName ?? camelToSnake(schemaKey)               *)
(***************************************************************************)
getColumnName(schemaKey, field) == OrElse(field.fieldName, camelToSnake(schemaKey))

(***************************************************************************)
(* getKnexType                                                             *)
(***************************************************************************)
getKnexType(field) ==
  CASE field.type = "string"  -> (IF field.sortable THEN "string" ELSE "text")
    [] field.type = "number"  -> (IF field.bigint THEN "bigInteger" ELSE "integer")
    [] field.type = "boolean" -> "boolean"
    [] field.type = "date"    -> "timestamp"
    [] field.type = "json"    -> "jsonb"
    [] OTHER                  -> "text"

(***************************************************************************)
(* ON_DELETE_MAP[refs.onDelete ?? 'cascade'] ?? 'CASCADE'                  *)
(***************************************************************************)
ON_DELETE_MAP ==
  [k \in {"cascade", "set null", "restrict", "no action", "set default"} |->
     CASE k = "cascade"     -> "CASCADE"
       [] k = "set null"    -> "SET NULL"
       [] k = "restrict"    -> "RESTRICT"
       [] k = "no action"   -> "NO ACTION"
       [] k = "set default" -> "SET DEFAULT"]

\* faulty variant of OnDeleteOf: the configured action is not read
OnDeleteOf_AlwaysCascade(refs) == "CASCADE"

OnDeleteOf(refs) ==
  LET k == OrElse(refs.onDelete, "cascade")
  IN  IF k \in DOMAIN ON_DELETE_MAP THEN ON_DELETE_MAP[k] ELSE "CASCADE"

(***************************************************************************)
(* allTables[refs.model]?.modelName ?? refs.model                          *)
(* A schema description is the sequence of its table definitions in        *)
(* declaration order; each carries its key.                                *)
(***************************************************************************)
\* faulty variant of RefModelName: the key is never looked up
RefModelName_RawKey(model, allTables) == model

RefModelName(model, allTables) ==
  IF \E k \in 1..Len(allTables) : allTables[k].key = model
  THEN allTables[CHOOSE k \in 1..Len(allTables) : allTables[k].key = model].modelName
  ELSE model

(***************************************************************************)
(* buildColumnChain: the column declaration of one field, as the record of *)
(* the calls that make up the chain.                                       *)
(***************************************************************************)
\* faulty variant of buildColumnChain: a field is NOT NULL only when
\* `required` is true
buildColumnChain_RequiredByDefaultLost(schemaKey, field, allTables) ==
  LET colName == getColumnName(schemaKey, field)
      knexType == getKnexType(field)
  IN  [ knexType   |-> knexType,
        colName    |-> colName,
        useTz      |-> (knexType = "timestamp"),
        primary    |-> (schemaKey = N_id),
        nullable   |-> (field.required # Some(TRUE)),
        notNull    |-> (field.required = Some(TRUE)),
        unique     |-> field.unique,
        references |->
          IF IsDefined(field.references)
          THEN Some([ field    |-> field.references[1].field,
                      inTable  |-> RefModelName(field.references[1].model, allTables),
                      onDelete |-> OnDeleteOf(field.references[1]) ])
          ELSE Undefined,
        index      |-> (~IsDefined(field.references) /\ field.index) ]

buildColumnChain(schemaKey, field, allTables) ==
  LET colName == getColumnName(schemaKey, field)
      knexType == getKnexType(field)
  IN  [ knexType   |-> knexType,
        colName    |-> colName,
        useTz      |-> (knexType = "timestamp"),
        primary    |-> (schemaKey = N_id),
        nullable   |-> (field.required = Some(FALSE)),
        notNull    |-> (field.required # Some(FALSE)),
        unique     |-> field.unique,
        references |->
          IF IsDefined(field.references)
          THEN Some([ field    |-> field.references[1].field,
                      inTable  |-> RefModelName(field.references[1].model, allTables),
                      onDelete |-> OnDeleteOf(field.references[1]) ])
          ELSE Undefined,
        index      |-> (~IsDefined(field.references) /\ field.index) ]

(***************************************************************************)
(* Generated text.  An item is one element of upBlocks / downLines /       *)
(* upStatements / downStatements / warnings:                               *)
(*   createTable  this.schema.createTable('<table>', ...<cols>...)         *)
(*   alterTable   this.schema.table('<table>', ... table.<col chain> ...)  *)
(*   dropTable    this.schema.dropTableIfExists('<table>')                 *)
(*   dropColumns  this.schema.table('<table>', ... table.dropColumn(n) ...)*)
(*   warnColumn   // WARNING: '<table>.<name>' is no longer in your ...    *)
(*   warnTable    // WARNING: Table '<table>' exists in DB but is no ...   *)
(*   hint         // Remove it manually ... / // Drop it manually ...      *)
(*   noRollback   // No automatic rollback for incremental changes ...     *)
(*   blank        the empty string that separates statements and warnings  *)
(* comment = TRUE for a line that starts with `//`.                        *)
(***************************************************************************)
Item(t, comment, table, cols, names) ==
  [t |-> t, comment |-> comment, table |-> table, cols |-> cols, names |-> names]

CreateTableItem(modelName, cols) == Item("createTable", FALSE, modelName, cols, << >>)
AlterTableItem(modelName, cols) == Item("alterTable", FALSE, modelName, cols, << >>)
DropTableItem(modelName) == Item("dropTable", FALSE, modelName, << >>, << >>)
DropColumnsItem(modelName, names) == Item("dropColumns", FALSE, modelName, << >>, names)
BlankItem == Item("blank", FALSE, << >>, << >>, << >>)
NoRollbackItem == Item("noRollback", TRUE, << >>, << >>, << >>)
HintItem == Item("hint", TRUE, << >>, << >>, << >>)

\* faulty variant of ColumnWarning: the column is dropped by a statement
ColumnWarning_Executable(modelName, existingCol) ==
  << DropColumnsItem(modelName, << existingCol >>) >>

\* the three lines pushed for a column that is no longer in the schema
ColumnWarning(modelName, existingCol) ==
  << Item("warnColumn", TRUE, modelName, << >>, << existingCol >>),
     HintItem,
     Item("dropColumns", TRUE, modelName, << >>, << existingCol >>) >>

\* the three lines pushed for a table that is no longer in the schema
TableWarning(existingTable) ==
  << Item("warnTable", TRUE, existingTable, << >>, << >>),
     HintItem,
     Item("dropTable", TRUE, existingTable, << >>, << >>) >>

(***************************************************************************)
(* Sequence helpers.                                                       *)
(***************************************************************************)
RECURSIVE Reverse(_)
Reverse(s) == IF s = << >> THEN << >> ELSE Append(Reverse(Tail(s)), Head(s))

RECURSIVE FlatMap(_, _)
FlatMap(F(_), s) == IF s = << >> THEN << >> ELSE F(Head(s)) \o FlatMap(F, Tail(s))

Map(F(_), s) == [k \in 1..Len(s) |-> F(s[k])]

Range(s) == {s[k] : k \in 1..Len(s)}

(***************************************************************************)
(* generateCreateTableBlock: the id column first, then the remaining       *)
(* fields in definition order.  `fields` is the sequence of the object's   *)
(* entries [key, field] in insertion order.                                *)
(***************************************************************************)
HasField(fields, key) == \E k \in 1..Len(fields) : fields[k].key = key
FieldOf(fields, key) == fields[CHOOSE k \in 1..Len(fields) : fields[k].key = key].field

\* faulty variant of generateCreateTableBlock: every field where it is declared
generateCreateTableBlock_DeclaredOrder(modelName, fields, allTables) ==
  LET LineOf(e) == << buildColumnChain(e.key, e.field, allTables) >>
  IN  CreateTableItem(modelName, FlatMap(LineOf, fields))

generateCreateTableBlock(modelName, fields, allTables) ==
  LET idLines ==
        IF HasField(fields, N_id)
        THEN << buildColumnChain(N_id, FieldOf(fields, N_id), allTables) >>
        ELSE << >>
      LineOf(e) ==
        IF e.key = N_id THEN << >>
        ELSE << buildColumnChain(e.key, e.field, allTables) >>
  IN  CreateTableItem(modelName, idLines \o FlatMap(LineOf, fields))

(***************************************************************************)
(* line.match(/table\.\w+\('([^']+)'/): the column name read back from a   *)
(* generated line `table.<knexType>('<colName>'...`.  The capture is the   *)
(* longest run of characters other than the quote that follows the opening *)
(* quote; a run of length zero is no match (null).  The identifiers of the *)
(* model contain neither `.` nor `(`, so the line holds no second place    *)
(* where the expression could match.                                       *)
(***************************************************************************)
RECURSIVE TakeUntilQuote(_)
TakeUntilQuote(str) ==
  IF str = << >> \/ Head(str) = Quote THEN << >>
  ELSE << Head(str) >> \o TakeUntilQuote(Tail(str))

\* the dropLines entry of one added line: << >> when the match is null
DropLineOf(line) ==
  LET m == TakeUntilQuote(line.colName)
  IN  IF m # << >> THEN << m >> ELSE << >>

(***************************************************************************)
(* The sort of activeTables: Array.prototype.sort is stable, so tables of  *)
(* equal order keep their declaration order.                               *)
(***************************************************************************)
OrderOf(t) == OrElse(t.order, DefaultOrder)

\* faulty variant of InsertByOrder: a table goes before the tables of its order
RECURSIVE InsertByOrder_TiesReversed(_, _)
InsertByOrder_TiesReversed(t, sorted) ==
  IF sorted = << >> THEN << t >>
  ELSE IF OrderOf(Head(sorted)) - OrderOf(t) >= 0
       THEN << t >> \o sorted
       ELSE << Head(sorted) >> \o InsertByOrder_TiesReversed(t, Tail(sorted))

RECURSIVE InsertByOrder(_, _)
InsertByOrder(t, sorted) ==
  IF sorted = << >> THEN << t >>
  ELSE IF OrderOf(Head(sorted)) - OrderOf(t) > 0
       THEN << t >> \o sorted
       ELSE << Head(sorted) >> \o InsertByOrder(t, Tail(sorted))

RECURSIVE SortByOrder(_)
SortByOrder(ts) ==
  IF ts = << >> THEN << >>
  ELSE InsertByOrder(ts[Len(ts)], SortByOrder(SubSeq(ts, 1, Len(ts) - 1)))

\* faulty variant of IsActive: the filter keeps every table
IsActive_KeepsAll(t) == TRUE

IsActive(t) == ~t.disableMigrations

\* faulty variant of ActiveTablesOf: the tables are filtered but not sorted
ActiveTablesOf_Unsorted(allTables) == SelectSeq(allTables, IsActive)

\* Object.values(tables).filter(...).sort(...)
ActiveTablesOf(allTables) == SortByOrder(SelectSeq(allTables, IsActive))

(***************************************************************************)
(* The incremental loop body of generateLucidMigration for one table.      *)
(* acc = [up, down, warnings] holds upStatements, downStatements and       *)
(* warnings; existingColumns is the Map returned by queryExistingColumns,  *)
(* a function from table name to the sequence of its column names in the   *)
(* order the rows came back (the iteration order of the Set).              *)
(***************************************************************************)
\* faulty variant of CurrentColsOf: the Map is never hit
CurrentColsOf_NeverFound(existingColumns, modelName) == << >>

CurrentColsOf(existingColumns, modelName) ==
  IF modelName \in DOMAIN existingColumns THEN existingColumns[modelName] ELSE << >>

\* faulty variant of AddColLines: the catalog's columns are not looked at
AddColLines_AllFields(fields, currentCols, allTables) ==
  LET LineOf(e) ==
        IF e.key = N_id THEN << >>
        ELSE << buildColumnChain(e.key, e.field, allTables) >>
  IN  FlatMap(LineOf, fields)

\* faulty variant of AddColLines: the catalog is searched for the snake-cased
\* key of a field, not for its column name
AddColLines_ComparesSnakeKey(fields, currentCols, allTables) ==
  LET LineOf(e) ==
        IF e.key = N_id THEN << >>
        ELSE IF camelToSnake(e.key) \notin Range(currentCols)
             THEN << buildColumnChain(e.key, e.field, allTables) >>
             ELSE << >>
  IN  FlatMap(LineOf, fields)

\* addColLines: a line per non-id field whose column is not in currentCols
AddColLines(fields, currentCols, allTables) ==
  LET LineOf(e) ==
        IF e.key = N_id THEN << >>
        ELSE IF getColumnName(e.key, e.field) \notin Range(currentCols)
             THEN << buildColumnChain(e.key, e.field, allTables) >>
             ELSE << >>
  IN  FlatMap(LineOf, fields)

\* the warnings for the columns of currentCols that no field declares
StaleColumnWarnings(modelName, fields, currentCols) ==
  LET WarnOf(existingCol) ==
        IF existingCol = N_id THEN << >>
        ELSE IF \E k \in 1..Len(fields) :
                   getColumnName(fields[k].key, fields[k].field) = existingCol
             THEN << >>
             ELSE ColumnWarning(modelName, existingCol)
  IN  FlatMap(WarnOf, currentCols)

\* faulty variant of ProcessTable: the drop of a new table is pushed, not
\* unshifted
ProcessTable_PushesDrop(acc, table, allTables, existingTables, existingColumns) ==
  IF table.modelName \notin existingTables
  THEN [ up       |-> Append(acc.up,
                             generateCreateTableBlock(table.modelName, table.fields, allTables)),
         down     |-> Append(acc.down, DropTableItem(table.modelName)),
         warnings |-> acc.warnings ]
  ELSE LET currentCols == CurrentColsOf(existingColumns, table.modelName)
           addColLines == AddColLines(table.fields, currentCols, allTables)
           dropLines == FlatMap(DropLineOf, addColLines)
       IN  [ up       |-> IF Len(addColLines) > 0
                          THEN Append(acc.up, AlterTableItem(table.modelName, addColLines))
                          ELSE acc.up,
             down     |-> IF Len(addColLines) > 0 /\ Len(dropLines) > 0
                          THEN Append(acc.down, DropColumnsItem(table.modelName, dropLines))
                          ELSE acc.down,
             warnings |-> acc.warnings
                            \o StaleColumnWarnings(table.modelName, table.fields, currentCols) ]

ProcessTable(acc, table, allTables, existingTables, existingColumns) ==
  IF table.modelName \notin existingTables
  THEN \* new table: push the create block, unshift its drop
       [ up       |-> Append(acc.up,
                             generateCreateTableBlock(table.modelName, table.fields, allTables)),
         down     |-> << DropTableItem(table.modelName) >> \o acc.down,
         warnings |-> acc.warnings ]
  ELSE LET currentCols == CurrentColsOf(existingColumns, table.modelName)
           addColLines == AddColLines(table.fields, currentCols, allTables)
           dropLines == FlatMap(DropLineOf, addColLines)
       IN  [ up       |-> IF Len(addColLines) > 0
                          THEN Append(acc.up, AlterTableItem(table.modelName, addColLines))
                          ELSE acc.up,
             down     |-> IF Len(addColLines) > 0 /\ Len(dropLines) > 0
                          THEN Append(acc.down, DropColumnsItem(table.modelName, dropLines))
                          ELSE acc.down,
             warnings |-> acc.warnings
                            \o StaleColumnWarnings(table.modelName, table.fields, currentCols) ]

RECURSIVE ProcessTables(_, _, _, _, _)
ProcessTables(acc, ts, allTables, existingTables, existingColumns) ==
  IF ts = << >> THEN acc
  ELSE ProcessTables(ProcessTable(acc, Head(ts), allTables, existingTables, existingColumns),
                     Tail(ts), allTables, existingTables, existingColumns)

(***************************************************************************)
(* The loop over existingTables that warns about tables removed from the   *)
(* configuration.  existingTables is a Set of names; the loop pushes at    *)
(* most one warning per name, so its result is computed name by name.      *)
(***************************************************************************)
DesiredTableNames(activeTbls) == {activeTbls[k].modelName : k \in 1..Len(activeTbls)}

WasOurs(activeTbls, existingTable) ==
  \E k \in 1..Len(activeTbls) : activeTbls[k].modelName = existingTable

RECURSIVE SetToSeq(_)
SetToSeq(S) ==
  IF S = {} THEN << >>
  ELSE LET x == CHOOSE y \in S : TRUE IN << x >> \o SetToSeq(S \ {x})

RemovedTableWarnings(activeTbls, existingTables) ==
  LET WarnOf(existingTable) ==
        IF existingTable \notin DesiredTableNames(activeTbls)
        THEN IF WasOurs(activeTbls, existingTable)
             THEN TableWarning(existingTable)
             ELSE << >>
        ELSE << >>
  IN  FlatMap(WarnOf, SetToSeq(existingTables))

(***************************************************************************)
(* Artifacts.  wrapInBaseSchema(upBody, downBody) is the migration class   *)
(* with the two bodies; the no-op artifact is the one-line comment.        *)
(***************************************************************************)
wrapInBaseSchema(upBody, downBody) == [kind |-> "migration", up |-> upBody, down |-> downBody]

NoChangesCode == [kind |-> "noop", up |-> << >>, down |-> << >>]

Artifact(code, path, overwrite) == [code |-> code, path |-> path, overwrite |-> overwrite]

\* file ?? `database/migrations/${timestamp}_better_auth_schema.ts`
OutputPathOf(fileArg, timestamp) ==
  IF IsDefined(fileArg) THEN [given |-> TRUE, name |-> fileArg[1], stamp |-> 0]
  ELSE [given |-> FALSE, name |-> << >>, stamp |-> timestamp]

\* the return of the fresh branch
FreshArtifact(activeTbls, allTables, path) ==
  LET BlockOf(t) == generateCreateTableBlock(t.modelName, t.fields, allTables)
      DropOf(t) == DropTableItem(t.modelName)
      upBlocks == Map(BlockOf, activeTbls)
      downLines == Map(DropOf, Reverse(activeTbls))
  IN  Artifact(wrapInBaseSchema(upBlocks, downLines), path, FALSE)

\* faulty variant of IncrementalArtifact: the migration replaces the file
IncrementalArtifact_Overwrites(ups, downs, warns, path) ==
  IF Len(ups) = 0 /\ Len(warns) = 0
  THEN Artifact(NoChangesCode, path, FALSE)
  ELSE LET upBody == ups \o (IF Len(warns) > 0 THEN << BlankItem >> \o warns ELSE << >>)
           downBody == IF Len(downs) > 0 THEN downs ELSE << NoRollbackItem >>
       IN  Artifact(wrapInBaseSchema(upBody, downBody), path, TRUE)

\* faulty variant of IncrementalArtifact: warnings alone are not a change
IncrementalArtifact_WarningsOnlyIsNoop(ups, downs, warns, path) ==
  IF Len(ups) = 0
  THEN Artifact(NoChangesCode, path, FALSE)
  ELSE LET upBody == ups \o (IF Len(warns) > 0 THEN << BlankItem >> \o warns ELSE << >>)
           downBody == IF Len(downs) > 0 THEN downs ELSE << NoRollbackItem >>
       IN  Artifact(wrapInBaseSchema(upBody, downBody), path, FALSE)

\* the two returns of the incremental branch
IncrementalArtifact(ups, downs, warns, path) ==
  IF Len(ups) = 0 /\ Len(warns) = 0
  THEN Artifact(NoChangesCode, path, FALSE)
  ELSE LET upBody == ups \o (IF Len(warns) > 0 THEN << BlankItem >> \o warns ELSE << >>)
           downBody == IF Len(downs) > 0 THEN downs ELSE << NoRollbackItem >>
       IN  Artifact(wrapInBaseSchema(upBody, downBody), path, FALSE)

(***************************************************************************)
(* Inputs: schema descriptions (BetterAuthDBSchema).                       *)
(***************************************************************************)
Field(type, required, unique, sortable, bigint, index, fieldName, references) ==
  [ type |-> type, required |-> required, unique |-> unique, sortable |-> sortable,
    bigint |-> bigint, index |-> index, fieldName |-> fieldName,
    references |-> references ]

Entry(key, field) == [key |-> key, field |-> field]

Ref(model, field, onDelete) == [model |-> model, field |-> field, onDelete |-> onDelete]

F_id == Entry(N_id,
  Field("string", Some(TRUE), FALSE, FALSE, FALSE, FALSE, Undefined, Undefined))
F_name == Entry(N_name,
  Field("string", Some(TRUE), FALSE, TRUE, FALSE, FALSE, Undefined, Undefined))
\* a field stored under another column name
F_email == Entry(N_email,
  Field("string", Some(TRUE), TRUE, TRUE, FALSE, FALSE, Some(N_mail), Undefined))
F_userId == Entry(N_userId,
  Field("string", Some(TRUE), FALSE, FALSE, FALSE, TRUE, Undefined,
        Some(Ref(N_user, N_id, Some("cascade")))))
F_sessionId == Entry(N_sessionId,
  Field("string", Some(FALSE), FALSE, FALSE, FALSE, FALSE, Undefined,
        Some(Ref(N_session, N_id, Some("set null")))))
\* a foreign key to a table key that no schema description of the model declares
F_accountRef == Entry(N_userId,
  Field("string", Undefined, FALSE, FALSE, FALSE, FALSE, Undefined,
        Some(Ref(N_account, N_id, Undefined))))
\* a field whose key holds a quote
F_qx == Entry(N_qx,
  Field("number", Some(FALSE), FALSE, FALSE, TRUE, TRUE, Undefined, Undefined))
\* a field whose column name override is the empty string
F_memo == Entry(N_memo,
  Field("json", Some(FALSE), FALSE, FALSE, FALSE, FALSE, Some(N_empty), Undefined))

TableKeys == << N_user, N_session, N_twoFactor >>

\* the field lists a table of the given key can declare
FieldListsOf(key) ==
  CASE key = N_user      -> { << F_id, F_name, F_email >>, << F_name, F_id >> }
    [] key = N_session   -> { << F_id, F_userId >>, << F_id, F_userId, F_qx >> }
    [] key = N_twoFactor -> { << F_id, F_userId, F_sessionId >>,
                              << F_id, F_memo, F_accountRef >> }

Orders == {Undefined} \cup {Some(n) : n \in 1..MaxOrder}

Table(key, modelName, order, disableMigrations, fields) ==
  [ key |-> key, modelName |-> modelName, order |-> order,
    disableMigrations |-> disableMigrations, fields |-> fields ]

\* modelName identifies the table, so the tables of one schema description
\* have different names: the name of a table is its key, but for the user
\* table of a description with plural table names, which is `users`.  The
\* filter drops a table with disableMigrations before its order or fields
\* are read, so one such definition per key is enough.
TableDefsOf(key) ==
  { Table(key, key, o, FALSE, fs) : o \in Orders, fs \in FieldListsOf(key) }
    \cup { Table(key, key, Undefined, TRUE, CHOOSE fs \in FieldListsOf(key) : Len(fs) = 3) }
    \cup (IF key = N_user
          THEN { Table(key, N_users, Undefined, FALSE, << F_id, F_name, F_email >>) }
          ELSE {})

\* a table key is absent from the description or maps to one definition
SlotOf(key) == { << >> } \cup { << t >> : t \in TableDefsOf(key) }

\* the descriptions, as the sequence of Object.values(tables)
Schemas ==
  { s1 \o s2 \o s3 : s1 \in SlotOf(TableKeys[1]), s2 \in SlotOf(TableKeys[2]),
                     s3 \in SlotOf(TableKeys[3]) }

\* the optional `file` argument
FileArgs == { Undefined, Some(<< "m" >>) }

(***************************************************************************)
(* Inputs: the database catalog (information_schema).                      *)
(***************************************************************************)
TableNames == Range(TableKeys) \cup {N_users}

\* the column rows a table of the given name can have, in the order the
\* catalog returns them
CatalogColumnsOf(name) ==
  CASE name = N_user      -> { << N_id, N_name, N_mail >>, << N_id, N_mail >> }
    [] name = N_session   -> { << N_id, N_user_id >>, << N_q, N_id, N_user_id >> }
    [] name = N_twoFactor -> { << N_id >>, << N_id, N_user_id, N_session_id >> }
    [] name = N_users     -> { << N_id, N_name >> }

\* the table sets of the catalogs: any of the tables of the table keys, or
\* `users` with any of the core tables
CatalogTableSets ==
  (SUBSET Range(TableKeys)) \cup {T \cup {N_users} : T \in SUBSET {N_user, N_session}}

Catalogs ==
  UNION { { [tables |-> T, columns |-> [n \in TableNames |-> c[n]]] :
              c \in { f \in [TableNames -> UNION {CatalogColumnsOf(n) \cup {<< >>} : n \in TableNames}] :
                        \A n \in TableNames :
                          IF n \in T THEN f[n] \in CatalogColumnsOf(n) ELSE f[n] = << >> } } :
          T \in CatalogTableSets }

\* queryExistingTables: the Set of the table_name of every row
queryExistingTables(db) == db.tables

\* faulty variant of queryExistingColumns: the early return is always taken
queryExistingColumns_AlwaysEmpty(db, tableNames) == [n \in {} |-> << >>]

\* queryExistingColumns: an empty Map when no name is asked for, otherwise
\* one entry per asked name that has at least one column row
queryExistingColumns(db, tableNames) ==
  [ n \in { m \in tableNames \cap TableNames : db.columns[m] # << >> } |-> db.columns[n] ]

\* faulty variant of IsFreshOf: a catalog is fresh when it has no table at all
IsFreshOf_EmptyCatalog(existing) == existing = {}

\* isFresh: !existingTables.has('user')
IsFreshOf(existing) == N_user \notin existing

\* one catalog query of a run and how it ended
Query(q, ok) == [q |-> q, ok |-> ok]

(***************************************************************************)
(* State.                                                                  *)
(***************************************************************************)
VARIABLES
  tables,           \* the schema description passed to every run
  fileArg,          \* the `file` argument passed to every run
  db,               \* the database catalog
  clock,            \* the time in seconds
  runs,             \* the number of runs started
  pc,               \* where the current run is
  activeTables,     \* local: the filtered and sorted tables
  outputPath,       \* local
  existingTables,   \* local: the answer of queryExistingTables
  isFresh,          \* local: undefined until the table listing has answered
  existingColumns,  \* local: the answer of queryExistingColumns
  upStatements,     \* local
  downStatements,   \* local
  warnings,         \* local
  queries,          \* the catalog queries the current run has had answered
  returned,         \* the artifacts returned so far, oldest first
  \* one call of buildColumnChain
  colKey,           \* argument schemaKey
  colField,         \* argument field
  colTables,        \* argument allTables
  colChain,         \* the chain returned, undefined before the return
  \* concurrent calls of generateLucidMigration
  callPc,           \* where each call is
  frames,           \* the locals of each call
  answers,          \* the time and the catalog answers each call has received
  results,          \* the artifact each call has returned, undefined before
  \* one call of applyWhereConditions
  where,            \* argument where
  whereAt,          \* the number of conditions the loop has been through
  query,            \* the calls made on the query builder, in order
  \* BetterAuthMiddleware.handle
  mwPc,             \* where the handler is
  ctxAuth,          \* ctx.auth of the request, undefined until assigned
  sessionData,      \* what getSession answered to the request
  nextCalls,        \* the calls of next() for the request
  authAtNext,       \* ctx.auth as next() saw it
  logged,           \* the warnings given to ctx.logger for the request
  handled           \* how the requests handled so far ended, oldest first

vars == << tables, fileArg, db, clock, runs, pc, activeTables, outputPath, existingTables,
           isFresh, existingColumns, upStatements, downStatements, warnings, queries,
           returned >>

inputs == << tables, fileArg, db >>

columnVars == << colKey, colField, colTables, colChain >>

whereVars == << where, whereAt, query >>

middlewareVars == << mwPc, ctxAuth, sessionData, nextCalls, authAtNext, logged, handled >>

\* the variables of the other specifications of this module
concurrentVars == << callPc, frames, answers, results >>

others == << columnVars, concurrentVars, whereVars, middlewareVars >>

\* the state of a part of the program that a specification leaves out: no
\* call of it has been made
ColumnRest == colKey = << >> /\ colField = << >> /\ colTables = << >> /\ colChain = << >>

ConcurrentRest == callPc = << >> /\ frames = << >> /\ answers = << >> /\ results = << >>

WhereRest == where = << >> /\ whereAt = 0 /\ query = << >>

GeneratorRest ==
  /\ tables = << >>
  /\ fileArg = << >>
  /\ db = [tables |-> {}, columns |-> [n \in TableNames |-> << >>]]
  /\ clock = 0
  /\ runs = 0
  /\ pc = "idle"
  /\ activeTables = << >>
  /\ outputPath = OutputPathOf(<< >>, 0)
  /\ existingTables = {}
  /\ isFresh = << >>
  /\ existingColumns = << >>
  /\ upStatements = << >>
  /\ downStatements = << >>
  /\ warnings = << >>
  /\ queries = << >>
  /\ returned = << >>

MiddlewareRest ==
  /\ mwPc = "idle"
  /\ ctxAuth = << >>
  /\ sessionData = << >>
  /\ nextCalls = 0
  /\ authAtNext = << >>
  /\ logged = 0
  /\ handled = << >>

EmptyMap == [n \in {} |-> << >>]

Init ==
  /\ tables \in Schemas
  /\ fileArg \in FileArgs
  /\ db \in Catalogs
  /\ clock = 0
  /\ runs = 0
  /\ pc = "idle"
  /\ activeTables = << >>
  /\ outputPath = OutputPathOf(Undefined, 0)
  /\ existingTables = {}
  /\ isFresh = Undefined
  /\ existingColumns = EmptyMap
  /\ upStatements = << >>
  /\ downStatements = << >>
  /\ warnings = << >>
  /\ queries = << >>
  /\ returned = << >>
  /\ ColumnRest
  /\ ConcurrentRest
  /\ WhereRest
  /\ MiddlewareRest

(***************************************************************************)
(* generateLucidMigration, from the call to the first await.               *)
(***************************************************************************)
Call ==
  /\ pc \in {"idle", "returned"}
  /\ runs < MaxRuns
  /\ runs' = runs + 1
  /\ clock' = clock + 1
  /\ activeTables' = ActiveTablesOf(tables)
  /\ outputPath' = OutputPathOf(fileArg, clock')
  /\ existingTables' = {}
  /\ isFresh' = Undefined
  /\ existingColumns' = EmptyMap
  /\ upStatements' = << >>
  /\ downStatements' = << >>
  /\ warnings' = << >>
  /\ queries' = << >>
  /\ pc' = "awaitTables"
  /\ UNCHANGED << inputs, returned, others >>

\* faulty variant of TablesRejected: the failure is taken for an empty listing
TablesRejected_Swallowed ==
  /\ pc = "awaitTables"
  /\ queries' = Append(queries, Query("tables", FALSE))
  /\ existingTables' = {}
  /\ isFresh' = Some(TRUE)
  /\ returned' = Append(returned, FreshArtifact(activeTables, tables, outputPath))
  /\ pc' = "returned"
  /\ UNCHANGED << inputs, clock, runs, activeTables, outputPath, existingColumns,
                  upStatements, downStatements, warnings, others >>

\* the table listing fails: the rejection propagates to the caller
TablesRejected ==
  /\ pc = "awaitTables"
  /\ queries' = Append(queries, Query("tables", FALSE))
  /\ pc' = "threw"
  /\ UNCHANGED << inputs, clock, runs, activeTables, outputPath, existingTables, isFresh,
                  existingColumns, upStatements, downStatements, warnings, returned,
                  others >>

\* the table listing has no `user`: fresh mode
TablesFresh ==
  /\ pc = "awaitTables"
  /\ IsFreshOf(queryExistingTables(db))
  /\ queries' = Append(queries, Query("tables", TRUE))
  /\ existingTables' = queryExistingTables(db)
  /\ isFresh' = Some(TRUE)
  /\ returned' = Append(returned, FreshArtifact(activeTables, tables, outputPath))
  /\ pc' = "returned"
  /\ UNCHANGED << inputs, clock, runs, activeTables, outputPath, existingColumns,
                  upStatements, downStatements, warnings, others >>

\* the table listing has `user`: incremental mode, up to the second await
TablesProvisioned ==
  /\ pc = "awaitTables"
  /\ ~IsFreshOf(queryExistingTables(db))
  /\ queries' = Append(queries, Query("tables", TRUE))
  /\ existingTables' = queryExistingTables(db)
  /\ isFresh' = Some(FALSE)
  /\ pc' = "awaitColumns"
  /\ UNCHANGED << inputs, clock, runs, activeTables, outputPath, existingColumns,
                  upStatements, downStatements, warnings, returned, others >>

\* the column listing fails (it is only sent when a name is asked for)
ColumnsRejected ==
  /\ pc = "awaitColumns"
  /\ DesiredTableNames(activeTables) # {}
  /\ queries' = Append(queries, Query("columns", FALSE))
  /\ pc' = "threw"
  /\ UNCHANGED << inputs, clock, runs, activeTables, outputPath, existingTables, isFresh,
                  existingColumns, upStatements, downStatements, warnings, returned,
                  others >>

\* the column listing answers: the two loops and the return
ColumnsResolved ==
  /\ pc = "awaitColumns"
  /\ \E cols \in {queryExistingColumns(db, DesiredTableNames(activeTables))} :
       \E acc \in {ProcessTables([up |-> << >>, down |-> << >>, warnings |-> << >>],
                                 activeTables, tables, existingTables, cols)} :
         \E warns \in {acc.warnings \o RemovedTableWarnings(activeTables, existingTables)} :
           /\ existingColumns' = cols
           /\ upStatements' = acc.up
           /\ downStatements' = acc.down
           /\ warnings' = warns
           /\ returned' = Append(returned,
                                 IncrementalArtifact(acc.up, acc.down, warns, outputPath))
  /\ queries' = IF DesiredTableNames(activeTables) # {}
                THEN Append(queries, Query("columns", TRUE))
                ELSE queries
  /\ pc' = "returned"
  /\ UNCHANGED << inputs, clock, runs, activeTables, outputPath, existingTables, isFresh,
                  others >>

Next ==
  \/ Call
  \/ TablesRejected
  \/ TablesFresh
  \/ TablesProvisioned
  \/ ColumnsRejected
  \/ ColumnsResolved

Spec == Init /\ [][Next]_<< vars, others >>

(***************************************************************************)
(* buildColumnChain on its own: one call, for every combination of the     *)
(* attributes of a field.                                                  *)
(***************************************************************************)
\* field.type: the five scalar types and an array type
ColumnTypes == {"string", "number", "boolean", "date", "json", "string[]"}

ColumnKeys == {N_id, N_userId, N_UserID, N_x_2, N_nomEte}

\* references.onDelete is one of the five actions or is left out
ColumnRefs ==
  {Undefined}
    \cup {Some(Ref(m, N_id, od)) :
            m \in {N_user, N_account},
            od \in {Undefined} \cup {Some(a) : a \in DOMAIN ON_DELETE_MAP}}

ColumnFields ==
  { Field(ty, rq, un, so, bi, ix, fn, rf) :
      ty \in ColumnTypes, rq \in {Undefined, Some(TRUE), Some(FALSE)},
      un \in BOOLEAN, so \in BOOLEAN, bi \in BOOLEAN, ix \in BOOLEAN,
      fn \in {Undefined, Some(N_mail)}, rf \in ColumnRefs }

\* allTables: without the key user, with it under the name `users`, with it
\* as a table that is not migrated
ColumnSchemas ==
  { << >>,
    << Table(N_user, N_users, Undefined, FALSE, << F_id >>) >>,
    << Table(N_user, N_user, Undefined, TRUE, << F_id >>) >> }

ColumnInit ==
  /\ colKey \in ColumnKeys
  /\ colField \in ColumnFields
  /\ colTables \in ColumnSchemas
  /\ colChain = Undefined
  /\ GeneratorRest
  /\ ConcurrentRest
  /\ WhereRest
  /\ MiddlewareRest

BuildColumn ==
  /\ colChain = Undefined
  /\ colChain' = Some(buildColumnChain(colKey, colField, colTables))
  /\ UNCHANGED << colKey, colField, colTables, vars, concurrentVars, whereVars,
                  middlewareVars >>

ColumnNext == BuildColumn

ColumnSpec == ColumnInit /\ [][ColumnNext]_<< vars, others >>

(***************************************************************************)
(* Concurrent calls of generateLucidMigration on the same schema           *)
(* description and database handle.  The function is async: a call runs    *)
(* without interruption between its awaits, so the calls interleave at the *)
(* two catalog queries.  Every const and let of the function is a local of *)
(* the call: frames[ScopeOf(r)] holds the locals of call r.  Between two   *)
(* steps the catalog may be changed by a migration that another process    *)
(* applies.                                                                *)
(***************************************************************************)
Callers == 1..MaxCallers

\* faulty variant of ScopeOf: the locals are declared once for all calls
ScopeOf_Shared(r) == 1

\* the activation record in which call r keeps its locals
ScopeOf(r) == r

NewFrame(active, path) ==
  [ activeTables |-> active, outputPath |-> path, existingTables |-> {},
    isFresh |-> Undefined, existingColumns |-> EmptyMap, upStatements |-> << >>,
    downStatements |-> << >>, warnings |-> << >> ]

\* a catalog with the given columns for the given tables
CatalogOf(cols) ==
  [ tables  |-> DOMAIN cols,
    columns |-> [n \in TableNames |-> IF n \in DOMAIN cols THEN cols[n] ELSE << >>] ]

ConcurrentSchemas ==
  { << Table(N_user, N_user, Undefined, FALSE, << F_id, F_name, F_email >>),
       Table(N_session, N_session, Some(1), FALSE, << F_id, F_userId, F_qx >>) >>,
    << Table(N_user, N_users, Undefined, FALSE, << F_id, F_name, F_email >>),
       Table(N_twoFactor, N_twoFactor, Undefined, FALSE, << F_id, F_userId, F_sessionId >>) >>,
    << Table(N_user, N_user, Undefined, TRUE, << F_id, F_name, F_email >>),
       Table(N_session, N_session, Undefined, FALSE, << F_id, F_userId >>) >> }

ConcurrentCatalogs ==
  { CatalogOf(EmptyMap),
    CatalogOf([n \in {N_session} |-> << N_q, N_id, N_user_id >>]),
    CatalogOf([n \in {N_user} |-> << N_id, N_mail >>]),
    CatalogOf([n \in {N_user, N_session} |->
                 IF n = N_user THEN << N_id, N_name, N_mail >> ELSE << N_id, N_user_id >>]) }

ConcurrentInit ==
  /\ tables \in ConcurrentSchemas
  /\ fileArg \in FileArgs
  /\ db \in ConcurrentCatalogs
  /\ clock = 0
  /\ callPc = [r \in Callers |-> "idle"]
  /\ frames = [s \in Callers |-> NewFrame(<< >>, OutputPathOf(Undefined, 0))]
  /\ answers = [r \in Callers |-> [time |-> 0, tables |-> Undefined, columns |-> Undefined]]
  /\ results = [r \in Callers |-> Undefined]
  /\ runs = 0
  /\ pc = "idle"
  /\ activeTables = << >>
  /\ outputPath = OutputPathOf(Undefined, 0)
  /\ existingTables = {}
  /\ isFresh = Undefined
  /\ existingColumns = EmptyMap
  /\ upStatements = << >>
  /\ downStatements = << >>
  /\ warnings = << >>
  /\ queries = << >>
  /\ returned = << >>
  /\ ColumnRest
  /\ WhereRest
  /\ MiddlewareRest

\* the variables the concurrent calls leave alone
sequentialLocals ==
  << runs, pc, activeTables, outputPath, existingTables, isFresh, existingColumns,
     upStatements, downStatements, warnings, queries, returned >>

apart == << sequentialLocals, columnVars, whereVars, middlewareVars >>

\* call r, from the call to the first await; the timestamp is read then
ConcurrentCall(r) ==
  /\ callPc[r] = "idle"
  /\ \E t \in {clock, clock + 1} :
       /\ clock' = t
       /\ frames' = [frames EXCEPT ![ScopeOf(r)] =
                       NewFrame(ActiveTablesOf(tables), OutputPathOf(fileArg, t))]
       /\ answers' = [answers EXCEPT ![r] =
                        [time |-> t, tables |-> Undefined, columns |-> Undefined]]
  /\ callPc' = [callPc EXCEPT ![r] = "awaitTables"]
  /\ UNCHANGED << inputs, results, apart >>

ConcurrentTablesRejected(r) ==
  /\ callPc[r] = "awaitTables"
  /\ callPc' = [callPc EXCEPT ![r] = "threw"]
  /\ UNCHANGED << inputs, clock, frames, answers, results, apart >>

ConcurrentTablesFresh(r) ==
  /\ callPc[r] = "awaitTables"
  /\ IsFreshOf(queryExistingTables(db))
  /\ answers' = [answers EXCEPT ![r].tables = Some(queryExistingTables(db))]
  /\ frames' = [frames EXCEPT ![ScopeOf(r)].existingTables = queryExistingTables(db),
                              ![ScopeOf(r)].isFresh = Some(TRUE)]
  /\ results' = [results EXCEPT ![r] =
                   Some(FreshArtifact(frames[ScopeOf(r)].activeTables, tables,
                                      frames[ScopeOf(r)].outputPath))]
  /\ callPc' = [callPc EXCEPT ![r] = "returned"]
  /\ UNCHANGED << inputs, clock, apart >>

ConcurrentTablesProvisioned(r) ==
  /\ callPc[r] = "awaitTables"
  /\ ~IsFreshOf(queryExistingTables(db))
  /\ answers' = [answers EXCEPT ![r].tables = Some(queryExistingTables(db))]
  /\ frames' = [frames EXCEPT ![ScopeOf(r)].existingTables = queryExistingTables(db),
                              ![ScopeOf(r)].isFresh = Some(FALSE)]
  /\ callPc' = [callPc EXCEPT ![r] = "awaitColumns"]
  /\ UNCHANGED << inputs, clock, results, apart >>

ConcurrentColumnsRejected(r) ==
  /\ callPc[r] = "awaitColumns"
  /\ DesiredTableNames(frames[ScopeOf(r)].activeTables) # {}
  /\ callPc' = [callPc EXCEPT ![r] = "threw"]
  /\ UNCHANGED << inputs, clock, frames, answers, results, apart >>

ConcurrentColumnsResolved(r) ==
  /\ callPc[r] = "awaitColumns"
  /\ \E f \in {frames[ScopeOf(r)]} :
       \E cols \in {queryExistingColumns(db, DesiredTableNames(f.activeTables))} :
         \E acc \in {ProcessTables([up |-> << >>, down |-> << >>, warnings |-> << >>],
                                   f.activeTables, tables, f.existingTables, cols)} :
           \E warns \in {acc.warnings
                           \o RemovedTableWarnings(f.activeTables, f.existingTables)} :
             /\ answers' = [answers EXCEPT ![r].columns = Some(cols)]
             /\ frames' = [frames EXCEPT ![ScopeOf(r)].existingColumns = cols,
                                         ![ScopeOf(r)].upStatements = acc.up,
                                         ![ScopeOf(r)].downStatements = acc.down,
                                         ![ScopeOf(r)].warnings = warns]
             /\ results' = [results EXCEPT ![r] =
                              Some(IncrementalArtifact(acc.up, acc.down, warns, f.outputPath))]
  /\ callPc' = [callPc EXCEPT ![r] = "returned"]
  /\ UNCHANGED << inputs, clock, apart >>

\* another process applies a migration: the catalog gets more tables
CatalogChanges ==
  /\ \E c \in ConcurrentCatalogs :
       /\ c.tables # db.tables
       /\ db.tables \subseteq c.tables
       /\ db' = c
  /\ UNCHANGED << tables, fileArg, clock, concurrentVars, apart >>

ConcurrentNext ==
  \/ \E r \in Callers : ConcurrentCall(r)
  \/ \E r \in Callers : ConcurrentTablesRejected(r)
  \/ \E r \in Callers : ConcurrentTablesFresh(r)
  \/ \E r \in Callers : ConcurrentTablesProvisioned(r)
  \/ \E r \in Callers : ConcurrentColumnsRejected(r)
  \/ \E r \in Callers : ConcurrentColumnsResolved(r)
  \/ CatalogChanges

ConcurrentSpec == ConcurrentInit /\ [][ConcurrentNext]_<< vars, others >>

(***************************************************************************)
(* applyWhereConditions: one call, one step per condition of the list.     *)
(* `query` records the calls made on the query builder; the builder        *)
(* returns itself, so nothing but the calls is kept.                       *)
(***************************************************************************)
\* opMap: the own properties of the object literal
opMap ==
  [k \in {"eq", "ne", "lt", "lte", "gt", "gte"} |->
     CASE k = "eq"  -> "="
       [] k = "ne"  -> "!="
       [] k = "lt"  -> "<"
       [] k = "lte" -> "<="
       [] k = "gt"  -> ">"
       [] k = "gte" -> ">="]

\* opMap is an object literal: a key it does not own is looked up in
\* Object.prototype, which has these properties among others; what is found
\* there is a function, written here as its name
ObjectPrototype ==
  [k \in {"constructor", "toString"} |->
     CASE k = "constructor" -> "[Function: Object]"
       [] k = "toString"    -> "[Function: toString]"]

\* opMap[operator] ?? '=' ; operator is undefined or a string
SqlOpOf(operator) ==
  IF ~IsDefined(operator) THEN "="
  ELSE IF operator[1] \in DOMAIN opMap THEN opMap[operator[1]]
  ELSE IF operator[1] \in DOMAIN ObjectPrototype THEN ObjectPrototype[operator[1]]
  ELSE "="

\* values: a string is the sequence of the pieces it is put together from,
\* an array the sequence of its elements
Scalar(pieces) == [array |-> FALSE, of |-> pieces]
List(elements) == [array |-> TRUE, of |-> elements]

\* Array.isArray(value) ? value : [value]
AsArray(value) == IF value.array THEN value ELSE List(<< value >>)

\* `%${value}%`, `${value}%`, `%${value}`
Like(before, value, after) == Scalar(before \o value.of \o after)

\* one call on the query builder; sqlOp is undefined for the two-argument
\* methods
BuilderCall(method, field, sqlOp, value) ==
  [method |-> method, field |-> field, sqlOp |-> sqlOp, value |-> value]

\* useOr: i > 0 && connector === 'OR', with i counted from 0
UseOr(i, connector) == i > 0 /\ connector = Some("OR")

\* the call that the loop body makes for the condition at index i
CallFor(i, cond) ==
  LET useOr == UseOr(i, cond.connector)
      op == cond.operator
  IN  CASE op = Some("in") ->
             BuilderCall(IF useOr THEN "orWhereIn" ELSE "whereIn",
                         cond.field, Undefined, AsArray(cond.value))
        [] op = Some("not_in") ->
             BuilderCall(IF useOr THEN "orWhereNotIn" ELSE "whereNotIn",
                         cond.field, Undefined, AsArray(cond.value))
        [] op = Some("contains") ->
             BuilderCall(IF useOr THEN "orWhere" ELSE "where",
                         cond.field, Some("like"), Like(<< "%" >>, cond.value, << "%" >>))
        [] op = Some("starts_with") ->
             BuilderCall(IF useOr THEN "orWhere" ELSE "where",
                         cond.field, Some("like"), Like(<< >>, cond.value, << "%" >>))
        [] op = Some("ends_with") ->
             BuilderCall(IF useOr THEN "orWhere" ELSE "where",
                         cond.field, Some("like"), Like(<< "%" >>, cond.value, << >>))
        [] OTHER ->
             BuilderCall(IF useOr THEN "orWhere" ELSE "where",
                         cond.field, Some(SqlOpOf(op)), cond.value)

\* the operators of CleanedWhere, no operator, and operators that are not
\* of CleanedWhere
WhereOperators ==
  {Undefined}
    \cup {Some(o) : o \in {"eq", "ne", "lt", "lte", "gt", "gte", "in", "not_in",
                           "contains", "starts_with", "ends_with"}}
    \cup {Some("matches"), Some("constructor")}

WhereConnectors == {Undefined, Some("AND"), Some("OR")}

Condition(field, value, operator, connector) ==
  [field |-> field, value |-> value, operator |-> operator, connector |-> connector]

\* a list of values is given to `in` and `not_in` only
WhereConditions ==
  { Condition("email", Scalar(<< "v" >>), o, c) : o \in WhereOperators, c \in WhereConnectors }
    \cup { Condition("email", List(<< Scalar(<< "a" >>), Scalar(<< "b" >>) >>), o, c) :
             o \in {Some("in"), Some("not_in")}, c \in WhereConnectors }

WhereLists == UNION { [1..n -> WhereConditions] : n \in 0..MaxWhere }

WhereInit ==
  /\ where \in WhereLists
  /\ whereAt = 0
  /\ query = << >>
  /\ GeneratorRest
  /\ ColumnRest
  /\ ConcurrentRest
  /\ MiddlewareRest

\* one turn of the loop
ApplyCondition ==
  /\ whereAt < Len(where)
  /\ query' = Append(query, CallFor(whereAt, where[whereAt + 1]))
  /\ whereAt' = whereAt + 1
  /\ UNCHANGED << where, vars, columnVars, concurrentVars, middlewareVars >>

WhereNext == ApplyCondition

WhereSpec == WhereInit /\ [][WhereNext]_<< vars, others >>

(***************************************************************************)
(* BetterAuthMiddleware.handle, one request after the other.  null is     *)
(* written as the optional value that holds nothing; getSession answers    *)
(* null or a pair of a session and its user.                               *)
(***************************************************************************)
Null == << >>

\* what auth.api.getSession can answer
SessionAnswers ==
  {Null} \cup {Some([session |-> s, user |-> u]) : s \in {"s1", "s2"}, u \in {"u1", "u2"}}

\* how the call of getSession ended for the request
Answered(data) == [threw |-> FALSE, data |-> data]
Threw == [threw |-> TRUE, data |-> Null]

\* { session: sessionData?.session ?? null, user: sessionData?.user ?? null }
AuthOf(data) ==
  [ session |-> IF data = Null THEN Null ELSE Some(data[1].session),
    user    |-> IF data = Null THEN Null ELSE Some(data[1].user) ]

\* { session: null, user: null }
NoAuth == [session |-> Null, user |-> Null]

\* the record of a request that handle has left
Handled(end) ==
  [end |-> end, auth |-> ctxAuth, nextCalls |-> nextCalls, logged |-> logged]

MiddlewareInit ==
  /\ MiddlewareRest
  /\ GeneratorRest
  /\ ColumnRest
  /\ ConcurrentRest
  /\ WhereRest

besidesMiddleware == << vars, columnVars, concurrentVars, whereVars >>

\* handle is called for a new request: up to the await of the import
Handle ==
  /\ mwPc \in {"idle", "done", "importFailed", "nextFailed"}
  /\ Len(handled) < MaxRequests
  /\ ctxAuth' = Undefined
  /\ sessionData' = Undefined
  /\ nextCalls' = 0
  /\ authAtNext' = Undefined
  /\ logged' = 0
  /\ mwPc' = "importing"
  /\ UNCHANGED << handled, besidesMiddleware >>

\* the import of #start/auth fails: handle rejects
ImportRejected ==
  /\ mwPc = "importing"
  /\ mwPc' = "importFailed"
  /\ handled' = Append(handled, Handled("importFailed"))
  /\ UNCHANGED << ctxAuth, sessionData, nextCalls, authAtNext, logged, besidesMiddleware >>

\* the auth instance is loaded: getSession is called
ImportResolved ==
  /\ mwPc = "importing"
  /\ mwPc' = "gettingSession"
  /\ UNCHANGED << ctxAuth, sessionData, nextCalls, authAtNext, logged, handled,
                  besidesMiddleware >>

\* getSession answers: ctx.auth is assigned, then next() is called
GetSessionResolved ==
  /\ mwPc = "gettingSession"
  /\ \E data \in SessionAnswers :
       /\ sessionData' = Some(Answered(data))
       /\ ctxAuth' = Some(AuthOf(data))
  /\ authAtNext' = ctxAuth'
  /\ nextCalls' = nextCalls + 1
  /\ mwPc' = "inNext"
  /\ UNCHANGED << logged, handled, besidesMiddleware >>

\* faulty variant of GetSessionRejected: there is no catch
GetSessionRejected_Propagates ==
  /\ mwPc = "gettingSession"
  /\ sessionData' = Some(Threw)
  /\ mwPc' = "sessionFailed"
  /\ handled' = Append(handled, Handled("sessionFailed"))
  /\ UNCHANGED << ctxAuth, nextCalls, authAtNext, logged, besidesMiddleware >>

\* getSession (or the conversion of the headers) throws: the catch assigns
\* ctx.auth and warns, then next() is called
GetSessionRejected ==
  /\ mwPc = "gettingSession"
  /\ sessionData' = Some(Threw)
  /\ ctxAuth' = Some(NoAuth)
  /\ logged' = logged + 1
  /\ authAtNext' = ctxAuth'
  /\ nextCalls' = nextCalls + 1
  /\ mwPc' = "inNext"
  /\ UNCHANGED << handled, besidesMiddleware >>

\* the rest of the request pipeline ends: handle ends the same way
NextResolved ==
  /\ mwPc = "inNext"
  /\ mwPc' = "done"
  /\ handled' = Append(handled, Handled("done"))
  /\ UNCHANGED << ctxAuth, sessionData, nextCalls, authAtNext, logged, besidesMiddleware >>

NextRejected ==
  /\ mwPc = "inNext"
  /\ mwPc' = "nextFailed"
  /\ handled' = Append(handled, Handled("nextFailed"))
  /\ UNCHANGED << ctxAuth, sessionData, nextCalls, authAtNext, logged, besidesMiddleware >>

MiddlewareNext ==
  \/ Handle
  \/ ImportRejected
  \/ ImportResolved
  \/ GetSessionResolved
  \/ GetSessionRejected
  \/ NextResolved
  \/ NextRejected

MiddlewareSpec == MiddlewareInit /\ [][MiddlewareNext]_<< vars, others >>

(***************************************************************************)
(* The generator and the migrations it writes: a run, the `up` of its      *)
(* artifact applied to the database, and the next run against the catalog  *)
(* that results.  A statement of `up` acts on the catalog as its text      *)
(* says: this.schema.createTable adds the table with the columns of its    *)
(* block, this.schema.table adds the columns of its lines; the comments    *)
(* and the no-op artifact change nothing.                                  *)
(***************************************************************************)
\* the column names of the lines of a creation or an alteration
DeclaredNames(it) == [c \in 1..Len(it.cols) |-> it.cols[c].colName]

\* the column rows of a table after the columns of the names are added
RECURSIVE AddColumns(_, _)
AddColumns(rows, names) ==
  IF names = << >> THEN rows
  ELSE AddColumns(IF Head(names) \in Range(rows) THEN rows ELSE Append(rows, Head(names)),
                  Tail(names))

ApplyStatement(cat, it) ==
  IF it.comment THEN cat
  ELSE IF it.t = "createTable"
       THEN [ tables  |-> cat.tables \cup {it.table},
              columns |-> [cat.columns EXCEPT
                             ![it.table] = AddColumns(@, DeclaredNames(it))] ]
       ELSE IF it.t = "alterTable"
            THEN [ tables  |-> cat.tables,
                   columns |-> [cat.columns EXCEPT
                                  ![it.table] = AddColumns(@, DeclaredNames(it))] ]
            ELSE cat

RECURSIVE ApplyUp(_, _)
ApplyUp(cat, up) ==
  IF up = << >> THEN cat
  ELSE ApplyUp(ApplyStatement(cat, Head(up)), Tail(up))

\* a run starts on the database as it is, or as the last migration left it
ConvergeCall ==
  /\ pc = "idle"
  /\ Call

\* the migration that the last run returned is run on the database
Migrate ==
  /\ pc = "returned"
  /\ runs < MaxRuns
  /\ db' = ApplyUp(db, returned[Len(returned)].code.up)
  /\ pc' = "idle"
  /\ UNCHANGED << tables, fileArg, clock, runs, activeTables, outputPath, existingTables,
                  isFresh, existingColumns, upStatements, downStatements, warnings,
                  queries, returned, others >>

ConvergeInit == Init

ConvergeNext ==
  \/ ConvergeCall
  \/ TablesRejected
  \/ TablesFresh
  \/ TablesProvisioned
  \/ ColumnsRejected
  \/ ColumnsResolved
  \/ Migrate

ConvergeSpec == ConvergeInit /\ [][ConvergeNext]_<< vars, others >>

(***************************************************************************)
(* Vocabulary of the properties.                                           *)
(***************************************************************************)
\* the run has returned an artifact
Returned == pc = "returned" /\ Len(returned) > 0

\* the artifact of the run that has just returned
Last == returned[Len(returned)]

\* the mode of every run against this catalog
FreshMode == N_user \notin db.tables
ProvisionedMode == N_user \in db.tables

IsMigration(a) == a.code.kind = "migration"
IsNoop(a) == a.code.kind = "noop"

\* the statements of a body: its items that are neither comments nor blank
IsExecutable(it) == ~it.comment /\ it.t # "blank"
Executable(body) == SelectSeq(body, IsExecutable)

\* the kinds of item that print a table name
PrintsTable(it) ==
  it.t \in {"createTable", "alterTable", "dropTable", "dropColumns", "warnColumn", "warnTable"}

\* every identifier an item prints, but for the targets of references clauses
SubjectNames(it) ==
  (IF PrintsTable(it) THEN {it.table} ELSE {})
    \cup Range(it.names)
    \cup {it.cols[k].colName : k \in 1..Len(it.cols)}
    \cup {it.cols[k].references[1].field :
            k \in {j \in 1..Len(it.cols) : IsDefined(it.cols[j].references)}}

\* the target tables of the references clauses of an item
ReferenceTargets(it) ==
  {it.cols[k].references[1].inTable :
     k \in {j \in 1..Len(it.cols) : IsDefined(it.cols[j].references)}}

ItemsOf(a) == Range(a.code.up) \cup Range(a.code.down)

\* every identifier that appears in the code of an artifact
NamesIn(a) == UNION {SubjectNames(it) \cup ReferenceTargets(it) : it \in ItemsOf(a)}

DisabledTables == {t \in Range(tables) : t.disableMigrations}
ActiveTables == {t \in Range(tables) : ~t.disableMigrations}

\* the declared column names of a table definition, in declaration order
ColumnNamesOf(t) == [k \in 1..Len(t.fields) |-> getColumnName(t.fields[k].key, t.fields[k].field)]

\* the catalog's columns of a table name
CatalogColumns(name) == IF name \in db.tables THEN Range(db.columns[name]) ELSE {}

TableNamesOf(body, kind) ==
  LET IsKind(it) == it.t = kind /\ ~it.comment
      NameOf(it) == it.table
  IN  Map(NameOf, SelectSeq(body, IsKind))

Count(body, kind, name) ==
  Cardinality({k \in 1..Len(body) :
                 body[k].t = kind /\ ~body[k].comment /\ body[k].table = name})

(***************************************************************************)
(* C1 (as stated): the modelName of a table with disableMigrations = true  *)
(* appears nowhere in the generated text, in either mode: not as the table *)
(* of a creation, alteration, drop or warning, and not inside a column     *)
(* declaration of another table, its references clause included.           *)
(***************************************************************************)
C1_DisabledNameNowhere ==
  Returned =>
    \A d \in DisabledTables : d.modelName \notin NamesIn(Last)

(***************************************************************************)
(* C1 (amended): every creation, alteration, drop and warning is about the *)
(* modelName of an active table, so no statement or warning is generated   *)
(* for a table with disableMigrations = true and its name is no column     *)
(* name of the text; the name appears only as the target table of the      *)
(* references clause of an active table's foreign key that points at it.   *)
(***************************************************************************)
C1_DisabledOnlyAsReferenceTarget ==
  Returned =>
    \A it \in ItemsOf(Last) :
      /\ PrintsTable(it) => \E t \in ActiveTables : t.modelName = it.table
      /\ \A d \in DisabledTables : d.modelName \notin SubjectNames(it)

\* a run has returned statements for a description with a disabled table
\* that is in the catalog and is the target of an emitted references clause
C1_Witness ==
  /\ Returned
  /\ \E d \in DisabledTables :
       /\ d.modelName \in db.tables
       /\ \E it \in ItemsOf(Last) : d.modelName \in ReferenceTargets(it)

(***************************************************************************)
(* C2: the `up` body holds no executable statement that drops a table or a *)
(* column: every statement of `up` creates a table or adds columns that    *)
(* the schema declares for an active table, and whatever names a drop is a *)
(* comment.                                                                *)
(***************************************************************************)
C2_UpNeverDrops ==
  Returned =>
    \A j \in 1..Len(Last.code.up) :
      LET it == Last.code.up[j]
      IN  /\ it.t \in {"dropTable", "dropColumns", "warnColumn", "warnTable", "hint"}
               => it.comment
          /\ IsExecutable(it) =>
               /\ it.t \in {"createTable", "alterTable"}
               /\ \E t \in ActiveTables :
                    /\ t.modelName = it.table
                    /\ \A c \in 1..Len(it.cols) :
                         it.cols[c].colName \in Range(ColumnNamesOf(t))

\* a run has returned an `up` body that adds a column to a table and warns
\* about a catalog column of the same table
C2_Witness ==
  /\ Returned
  /\ \E i, j \in 1..Len(Last.code.up) :
       LET up == Last.code.up
       IN  /\ up[i].t = "alterTable"
           /\ up[j].t = "warnColumn"
           /\ up[i].table = up[j].table

(***************************************************************************)
(* C3 (as stated): in both modes, with s1, ..., sn the statements of `up`  *)
(* in emission order, the statements of `down` are inverse(sn), ...,       *)
(* inverse(s1): a creation is inverted by the drop of its table, an        *)
(* alteration by the drop of exactly the columns it adds.                  *)
(***************************************************************************)
InverseOf(it) ==
  IF it.t = "createTable" THEN DropTableItem(it.table)
  ELSE LET NameOf(c) == c.colName IN DropColumnsItem(it.table, Map(NameOf, it.cols))

\* an identifier the regular expression reads back unchanged: it is not
\* empty and holds no quote
IsPlainName(name) == name # << >> /\ Quote \notin Range(name)

\* every column an artifact adds to an existing table has a plain name
AddsPlainNames(a) ==
  \A it \in Range(a.code.up) :
    it.t = "alterTable" => \A c \in 1..Len(it.cols) : IsPlainName(it.cols[c].colName)

\* stated for the runs whose added columns have plain names only
C3_DownIsReverseInverse ==
  (Returned /\ IsMigration(Last) /\ AddsPlainNames(Last)) =>
      Executable(Last.code.down) = Map(InverseOf, Reverse(Executable(Last.code.up)))

(***************************************************************************)
(* C4: for a schema description without disableMigrations tables and an    *)
(* empty catalog the run is fresh: `up` is exactly one creation block per  *)
(* table, in ascending order (a table without order counting as 999), and  *)
(* `down` is exactly one drop per table, in the reverse of the `up` order. *)
(***************************************************************************)
OrderOfName(name) ==
  LET t == CHOOSE x \in Range(tables) : x.modelName = name
  IN  IF IsDefined(t.order) THEN t.order[1] ELSE 999

C4_FreshCreatesAllInOrder ==
  (Returned /\ db.tables = {} /\ DisabledTables = {}) =>
      LET up == Last.code.up
          down == Last.code.down
          n == Len(tables)
      IN  /\ IsMigration(Last)
          /\ Len(up) = n /\ Len(down) = n
          /\ \A i \in 1..n : up[i].t = "createTable" /\ ~up[i].comment
          /\ {up[i].table : i \in 1..n} = {tables[i].modelName : i \in 1..n}
          /\ \A i, j \in 1..n : i < j => OrderOfName(up[i].table) <= OrderOfName(up[j].table)
          /\ \A i \in 1..n : down[i] = DropTableItem(up[n + 1 - i].table)

\* a fresh run has returned for three tables that are declared in another
\* order than the one their `order` asks for
C4_Witness ==
  /\ Returned
  /\ db.tables = {} /\ DisabledTables = {}
  /\ Len(tables) = 3
  /\ \E i, j \in 1..Len(tables) : i < j /\ OrderOf(tables[i]) > OrderOf(tables[j])

(***************************************************************************)
(* C5: in provisioned mode, an active table that is in the catalog and     *)
(* declares at least one non-id field whose column the catalog lacks gets  *)
(* exactly one alteration statement in `up`, which adds exactly the        *)
(* missing columns in declaration order, and gets no creation block.       *)
(***************************************************************************)
\* the columns of the non-id fields of t that the catalog lacks, in order
MissingColumns(t) ==
  LET names == ColumnNamesOf(t)
      idx == {k \in 1..Len(t.fields) :
                t.fields[k].key # N_id /\ names[k] \notin CatalogColumns(t.modelName)}
      RECURSIVE Pick(_)
      Pick(k) == IF k > Len(names) THEN << >>
                 ELSE (IF k \in idx THEN << names[k] >> ELSE << >>) \o Pick(k + 1)
  IN  Pick(1)

AddedNames(it) == [c \in 1..Len(it.cols) |-> it.cols[c].colName]

C5_OneAlterationPerTable ==
  (Returned /\ ProvisionedMode) =>
      \A t \in ActiveTables :
        (t.modelName \in db.tables /\ MissingColumns(t) # << >>) =>
          LET up == Last.code.up
          IN  /\ IsMigration(Last)
              /\ Count(up, "alterTable", t.modelName) = 1
              /\ Count(up, "createTable", t.modelName) = 0
              /\ \A i \in 1..Len(up) :
                   (up[i].t = "alterTable" /\ up[i].table = t.modelName)
                     => AddedNames(up[i]) = MissingColumns(t)

\* a provisioned run has returned for a table of the catalog that lacks
\* two declared columns
C5_Witness ==
  /\ Returned
  /\ ProvisionedMode
  /\ \E t \in ActiveTables :
       /\ t.modelName \in db.tables
       /\ Len(MissingColumns(t)) = 2
       /\ Count(Last.code.up, "alterTable", t.modelName) = 1

(***************************************************************************)
(* C6: in provisioned mode, every active table whose name is not in the    *)
(* catalog's table set gets exactly one creation block in `up` and no      *)
(* alteration; in `down` the drops of the created tables come in the       *)
(* reverse of their creation order and before every column-dropping        *)
(* alteration.                                                             *)
(***************************************************************************)
C6_NewTablesCreatedDroppedFirst ==
  (Returned /\ ProvisionedMode) =>
      LET up == Last.code.up
          down == Last.code.down
      IN  /\ \A t \in ActiveTables :
               t.modelName \notin db.tables =>
                 /\ IsMigration(Last)
                 /\ Count(up, "createTable", t.modelName) = 1
                 /\ Count(up, "alterTable", t.modelName) = 0
          /\ TableNamesOf(down, "dropTable") = Reverse(TableNamesOf(up, "createTable"))
          /\ \A i, j \in 1..Len(down) :
               (down[i].t = "dropTable" /\ down[j].t = "dropColumns") => i < j

\* a provisioned run has returned that creates two tables and alters a third
C6_Witness ==
  /\ Returned
  /\ ProvisionedMode
  /\ Len(TableNamesOf(Last.code.up, "createTable")) = 2
  /\ Len(TableNamesOf(Last.code.down, "dropColumns")) = 1

(***************************************************************************)
(* C7 (as stated): in provisioned mode, for every active table of the      *)
(* catalog, each catalog column other than id that is no declared field's  *)
(* column name produces a warning that names the table and the column, and *)
(* no statement of `up` or `down` drops that column, also when the run     *)
(* adds other columns to the table.                                        *)
(***************************************************************************)
StaleColumns(t) ==
  {c \in CatalogColumns(t.modelName) : c # N_id /\ c \notin Range(ColumnNamesOf(t))}

Drops(it, name, col) ==
  it.t = "dropColumns" /\ ~it.comment /\ it.table = name /\ col \in Range(it.names)

C7_StaleColumnWarnedNeverDropped ==
  (Returned /\ ProvisionedMode) =>
      \A t \in ActiveTables :
        t.modelName \in db.tables =>
          \A c \in StaleColumns(t) :
            /\ \E it \in Range(Last.code.up) :
                 it.t = "warnColumn" /\ it.comment /\ it.table = t.modelName
                   /\ it.names = << c >>
            /\ \A it \in ItemsOf(Last) : ~Drops(it, t.modelName, c)

(***************************************************************************)
(* C8 (as stated): in provisioned mode, a table that is in the catalog, is *)
(* not among the active tables, and is a table of this system that was     *)
(* removed from the configuration produces a table-level warning in `up`.  *)
(***************************************************************************)
\* the tables this system manages are those of the table keys; one that the
\* schema description no longer declares has been removed from the
\* configuration
RemovedFromConfig(name) ==
  /\ name \in db.tables
  /\ name \in TableNames
  /\ \A t \in Range(tables) : t.modelName # name

\* stated for the descriptions that have an active table
C8_RemovedTableWarned ==
  (Returned /\ ProvisionedMode /\ ActiveTables # {}) =>
      \A name \in TableNames :
        RemovedFromConfig(name) =>
          \E it \in Range(Last.code.up) :
            it.t = "warnTable" /\ it.comment /\ it.table = name

(***************************************************************************)
(* C9 (as stated): when every active table is in the catalog, every        *)
(* declared non-id column is in the catalog and those tables have no       *)
(* non-id catalog column that no field declares, every run against the     *)
(* unchanged catalog and schema returns the no-op artifact.                *)
(***************************************************************************)
InSync ==
  \A t \in ActiveTables :
    /\ t.modelName \in db.tables
    /\ MissingColumns(t) = << >>
    /\ StaleColumns(t) = {}

\* stated for the descriptions that have an active table
C9_InSyncIsNoop ==
  \A k \in 1..Len(returned) : (InSync /\ ActiveTables # {}) => IsNoop(returned[k])

(***************************************************************************)
(* C9 (amended): when, in addition, the catalog has a table named `user`   *)
(* (the run is provisioned), every run against the unchanged catalog and   *)
(* schema returns the no-op artifact, the second run like the first.       *)
(***************************************************************************)
C9_InSyncProvisionedIsNoop ==
  \A k \in 1..Len(returned) :
    (InSync /\ ProvisionedMode) => returned[k].code = NoChangesCode

\* two runs have returned for a description in sync with the catalog that
\* has an active table
C9_Witness ==
  /\ Returned
  /\ Len(returned) = 2
  /\ InSync /\ ProvisionedMode
  /\ ActiveTables # {}

(***************************************************************************)
(* C10: every returned artifact has overwrite = false: the fresh one, the  *)
(* incremental one and the no-op one.                                      *)
(***************************************************************************)
C10_NeverOverwrites ==
  \A k \in 1..Len(returned) : returned[k].overwrite = FALSE

\* a provisioned run has returned a migration after a run
C10_Witness ==
  /\ Returned
  /\ Len(returned) = 2
  /\ ProvisionedMode
  /\ IsMigration(returned[2])

(***************************************************************************)
(* C11: when the table listing or the column listing fails, the run ends   *)
(* with the failure propagated to the caller: the failed query is the last *)
(* thing the run does, the run returns no artifact (the artifacts returned *)
(* are those of the earlier runs), and neither listing is asked for twice  *)
(* by one run.                                                             *)
(***************************************************************************)
Failed(qs) == \E k \in 1..Len(qs) : ~qs[k].ok

TimesAsked(qs, q) == Cardinality({k \in 1..Len(qs) : qs[k].q = q})

C11_QueryFailureEndsRun ==
  /\ \A k \in 1..Len(queries) :
       ~queries[k].ok =>
         /\ k = Len(queries)
         /\ pc = "threw"
         /\ Len(returned) = runs - 1
  /\ pc = "threw" => Failed(queries)
  /\ TimesAsked(queries, "tables") <= 1
  /\ TimesAsked(queries, "columns") <= 1

\* the second run has failed at the column listing, after its table listing
\* had answered
C11_Witness ==
  /\ pc = "threw"
  /\ runs = 2
  /\ Len(returned) = 1
  /\ queries = << Query("tables", TRUE), Query("columns", FALSE) >>

(***************************************************************************)
(* C12: a foreign key whose table key the full schema description does not *)
(* declare does not stop the run: the artifact is returned with every      *)
(* block it would otherwise have, and the references clause of the column  *)
(* names the raw key as its table; a foreign key whose table key is        *)
(* declared (by an active table or not) names that table's modelName.      *)
(***************************************************************************)
\* the table a references clause must name for the table key `model`
TargetOf(model) ==
  LET declared == {d \in Range(tables) : d.key = model}
  IN  IF declared = {} THEN model ELSE (CHOOSE d \in declared : TRUE).modelName

\* the fields of table definition t that are stored under the column name
FieldsNamed(t, colName) ==
  {e \in Range(t.fields) : getColumnName(e.key, e.field) = colName}

C12_ReferenceTargetResolved ==
  Returned =>
    /\ \A t \in ActiveTables :
         /\ t.modelName \notin db.tables =>
              Count(Last.code.up, "createTable", t.modelName) = 1
         /\ \A it \in Range(Last.code.up) :
              (it.t \in {"createTable", "alterTable"} /\ it.table = t.modelName) =>
                \A c \in 1..Len(it.cols) :
                  \A e \in FieldsNamed(t, it.cols[c].colName) :
                    IsDefined(e.field.references) =>
                      /\ IsDefined(it.cols[c].references)
                      /\ it.cols[c].references[1].inTable
                           = TargetOf(e.field.references[1].model)

\* a run has returned a reference to the table of an undeclared key, under
\* the raw key, and a reference to a declared table whose modelName is not
\* its key
C12_Witness ==
  /\ Returned
  /\ \E t \in Range(tables) : t.key = N_user /\ t.modelName = N_users
  /\ \A t \in Range(tables) : t.key # N_account
  /\ \E it \in Range(Last.code.up) : N_users \in ReferenceTargets(it)
  /\ \E it \in Range(Last.code.up) : N_account \in ReferenceTargets(it)

(***************************************************************************)
(* C13: the declaration of a field with a foreign key has one references   *)
(* clause, made of the target column, the resolved target table and the    *)
(* configured on-delete action (cascade when none is configured), and has  *)
(* no index marker, whatever `index` is; the declaration of a field        *)
(* without a foreign key has no references clause and has an index marker  *)
(* exactly when `index` is true.                                           *)
(***************************************************************************)
\* the chain that the call has returned
Chain == colChain[1]

\* an on-delete action as configured and as an SQL keyword
ActionKeywords ==
  { << "cascade", "CASCADE" >>, << "set null", "SET NULL" >>, << "restrict", "RESTRICT" >>,
    << "no action", "NO ACTION" >>, << "set default", "SET DEFAULT" >> }

\* the table of colTables that has the key, if any
ColumnTarget(model) ==
  LET declared == {d \in Range(colTables) : d.key = model}
  IN  IF declared = {} THEN model ELSE (CHOOSE d \in declared : TRUE).modelName

C13_ReferencesOrIndex ==
  IsDefined(colChain) =>
    IF IsDefined(colField.references)
    THEN LET refs == colField.references[1]
         IN  /\ IsDefined(Chain.references)
             /\ Chain.references[1].field = refs.field
             /\ Chain.references[1].inTable = ColumnTarget(refs.model)
             /\ << OrElse(refs.onDelete, "cascade"), Chain.references[1].onDelete >>
                  \in ActionKeywords
             /\ ~Chain.index
    ELSE /\ ~IsDefined(Chain.references)
         /\ Chain.index <=> colField.index

\* the chain of an indexed field with a foreign key whose action is
\* `set null` has been built
C13_Witness ==
  /\ IsDefined(colChain)
  /\ IsDefined(colField.references)
  /\ colField.references[1].onDelete = Some("set null")
  /\ colField.index
  /\ Chain.references[1].onDelete = "SET NULL"

(***************************************************************************)
(* C14: a column declaration has a uniqueness marker exactly when `unique` *)
(* is set, and has exactly one nullability marker: nullable when           *)
(* `required` is false, NOT NULL when `required` is true or is left out.   *)
(***************************************************************************)
C14_UniqueAndNullability ==
  IsDefined(colChain) =>
    /\ Chain.unique <=> colField.unique
    /\ Chain.nullable # Chain.notNull
    /\ Chain.nullable <=> colField.required = Some(FALSE)
    /\ Chain.notNull <=> colField.required \in {Undefined, Some(TRUE)}

\* the chain of a unique field that leaves `required` out has been built
C14_Witness ==
  /\ IsDefined(colChain)
  /\ colField.required = Undefined
  /\ colField.unique
  /\ Chain.notNull

(***************************************************************************)
(* C15 (as stated): the column name of a field is its name override when   *)
(* it has one, and otherwise its key with every uppercase letter replaced  *)
(* by an underscore followed by that letter in lowercase and every other   *)
(* character unchanged.                                                    *)
(***************************************************************************)
\* an uppercase letter, of ASCII or not
IsUpperLetter(c) == IsUpperAscii(c) \/ c \in DOMAIN LowerOfOther

RECURSIVE ClaimedSnake(_)
ClaimedSnake(str) ==
  IF str = << >> THEN << >>
  ELSE (IF IsUpperLetter(Head(str)) THEN << "_", ToLowerChar(Head(str)) >> ELSE << Head(str) >>)
         \o ClaimedSnake(Tail(str))

C15_ColumnNameAsClaimed ==
  IsDefined(colChain) =>
    Chain.colName = OrElse(colField.fieldName, ClaimedSnake(colKey))

(***************************************************************************)
(* C16: in every creation block the column of the field with key `id`,     *)
(* when the table has one, is the first column, occurs once and is the     *)
(* only column marked primary key; the other fields follow in their        *)
(* declared order, one column declaration per field.                       *)
(***************************************************************************)
\* the column names a creation block of table definition t must have
CreateOrderOf(t) ==
  LET IsId(e) == e.key = N_id
      NotId(e) == e.key # N_id
      NameOf(e) == getColumnName(e.key, e.field)
  IN  Map(NameOf, SelectSeq(t.fields, IsId) \o SelectSeq(t.fields, NotId))

HasId(t) == \E e \in Range(t.fields) : e.key = N_id

C16_IdFirstThenDeclaredOrder ==
  Returned =>
    \A it \in Range(Last.code.up) :
      it.t = "createTable" =>
        \A t \in ActiveTables :
          t.modelName = it.table =>
            /\ AddedNames(it) = CreateOrderOf(t)
            /\ Len(it.cols) = Len(t.fields)
            /\ {c \in 1..Len(it.cols) : it.cols[c].primary} = (IF HasId(t) THEN {1} ELSE {})

\* a run has returned the creation block of a table that declares `id`
\* after another field
C16_Witness ==
  /\ Returned
  /\ \E it \in Range(Last.code.up) :
       /\ it.t = "createTable"
       /\ \E t \in ActiveTables :
            /\ t.modelName = it.table
            /\ t.fields[1].key # N_id
            /\ t.fields[2].key = N_id
            /\ it.cols[1].primary

(***************************************************************************)
(* C17: the mode of a run is chosen from the table listing alone: the run  *)
(* is fresh exactly when the catalog has no table named `user`, whatever   *)
(* other tables it has and whatever the schema description declares, the   *)
(* modelName of its user table included.  A fresh run returns the creation *)
(* of every active table without asking for the columns; a provisioned run *)
(* returns what the comparison with the catalog gives.                     *)
(***************************************************************************)
C17_ModeFromUserTableOnly ==
  /\ IsDefined(isFresh) => isFresh = Some(N_user \notin db.tables)
  /\ pc = "awaitColumns" => isFresh = Some(FALSE)
  /\ Returned =>
       IF isFresh = Some(TRUE)
       THEN /\ Last = FreshArtifact(ActiveTablesOf(tables), tables, outputPath)
            /\ TimesAsked(queries, "columns") = 0
       ELSE /\ isFresh = Some(FALSE)
            /\ Last = IncrementalArtifact(upStatements, downStatements, warnings, outputPath)

\* a fresh run has returned for a catalog that has the table `users` and a
\* schema description whose user table is named `users`: the run creates it
C17_Witness ==
  /\ Returned
  /\ isFresh = Some(TRUE)
  /\ N_users \in db.tables
  /\ \E t \in ActiveTables : t.key = N_user /\ t.modelName = N_users
  /\ Count(Last.code.up, "createTable", N_users) = 1

(***************************************************************************)
(* C18: no step of a call writes: it leaves the schema description and the *)
(* catalog as they are.  Calls that run concurrently on the same schema    *)
(* description and database handle, interleaved at their catalog queries,  *)
(* share no state: the artifact a call returns is the one a call on its    *)
(* own returns for the timestamp it read and the catalog answers it        *)
(* received.                                                               *)
(***************************************************************************)
\* what a call on its own returns for the time and the answers of `a`
AloneArtifact(a) ==
  LET active == ActiveTablesOf(tables)
      path == OutputPathOf(fileArg, a.time)
  IN  IF IsFreshOf(a.tables[1])
      THEN FreshArtifact(active, tables, path)
      ELSE LET acc == ProcessTables([up |-> << >>, down |-> << >>, warnings |-> << >>],
                                    active, tables, a.tables[1], a.columns[1])
               warns == acc.warnings \o RemovedTableWarnings(active, a.tables[1])
           IN  IncrementalArtifact(acc.up, acc.down, warns, path)

\* a step of one of the calls
CallStep == callPc' # callPc

C18_NoWriteNoSharing ==
  /\ [](\A r \in Callers : IsDefined(results[r]) => results[r][1] = AloneArtifact(answers[r]))
  /\ [][CallStep => (tables' = tables /\ db' = db)]_<< vars, others >>

\* two calls have returned different code: between the table listing of the
\* one and that of the other the catalog has changed
C18_Witness ==
  /\ \A r \in Callers : IsDefined(results[r])
  /\ \E r1, r2 \in Callers :
       /\ results[r1][1].code # results[r2][1].code
       /\ answers[r1].tables # answers[r2].tables

(***************************************************************************)
(* C19 (as stated): the conditions are applied in list order, one call     *)
(* each; the first with where / whereIn / whereNotIn whatever its          *)
(* connector, a later one with the OR variant exactly when its connector   *)
(* is 'OR' and with the AND variant otherwise; a comparison operator that  *)
(* is missing or is not one of the known operators is applied as '='.      *)
(***************************************************************************)
\* the operators applyWhereConditions knows
KnownOperators ==
  {"in", "not_in", "contains", "starts_with", "ends_with"} \cup DOMAIN opMap

\* the AND and the OR variant of the method for an operator
MethodsFor(operator) ==
  CASE operator = Some("in")     -> [and |-> "whereIn", or |-> "orWhereIn"]
    [] operator = Some("not_in") -> [and |-> "whereNotIn", or |-> "orWhereNotIn"]
    [] OTHER                     -> [and |-> "where", or |-> "orWhere"]

AppliedAsClaimed(i, cond, call) ==
  /\ call.field = cond.field
  /\ call.method = IF i > 1 /\ cond.connector = Some("OR")
                   THEN MethodsFor(cond.operator).or
                   ELSE MethodsFor(cond.operator).and
  /\ (~IsDefined(cond.operator) \/ cond.operator[1] \notin KnownOperators) =>
       /\ call.sqlOp = Some("=")
       /\ call.value = cond.value

C19_WhereAppliedAsClaimed ==
  /\ Len(query) = whereAt
  /\ \A i \in 1..whereAt : AppliedAsClaimed(i, where[i], query[i])

(***************************************************************************)
(* C20: for every request handled once the auth instance is loaded,        *)
(* ctx.auth is assigned before next() is invoked; next() is invoked        *)
(* exactly once, whether getSession answers a session, answers nothing or  *)
(* throws; and when getSession throws or answers no session, both          *)
(* ctx.auth.session and ctx.auth.user are null.  A failure of getSession   *)
(* does not end the handler: it goes on to next().                         *)
(***************************************************************************)
C20_AuthSetThenNextOnce ==
  /\ nextCalls <= 1
  /\ nextCalls = 1 => IsDefined(authAtNext)
  /\ IsDefined(sessionData) =>
       /\ nextCalls = 1
       /\ IsDefined(ctxAuth)
       /\ authAtNext = ctxAuth
       /\ mwPc \in {"inNext", "done", "nextFailed"}
       /\ (sessionData[1].threw \/ sessionData[1].data = Null) => ctxAuth = Some(NoAuth)
       /\ (~sessionData[1].threw /\ sessionData[1].data # Null) =>
            /\ ctxAuth[1].session = Some(sessionData[1].data[1].session)
            /\ ctxAuth[1].user = Some(sessionData[1].data[1].user)
  /\ \A k \in 1..Len(handled) :
       handled[k].end # "importFailed" =>
         /\ handled[k].nextCalls = 1
         /\ IsDefined(handled[k].auth)

\* a request with a session has been handled, and then a request for which
\* getSession threw
C20_Witness ==
  /\ mwPc = "done"
  /\ Len(handled) = 2
  /\ handled[1].end = "done"
  /\ handled[1].auth # Some(NoAuth)
  /\ sessionData = Some(Threw)
  /\ handled[2].auth = Some(NoAuth)
  /\ handled[2].logged = 1

(***************************************************************************)
(* C21: in both modes the active tables are processed in ascending order,  *)
(* a table without order counting as 999, and tables of equal order keep   *)
(* their declaration order; the statements of `up` follow this sequence,   *)
(* in fresh mode (one creation per table of the sequence) and in           *)
(* provisioned mode (the creations and alterations of its tables).         *)
(***************************************************************************)
\* the places in the schema description of the tables that are not disabled
ActivePlaces == {k \in 1..Len(tables) : ~tables[k].disableMigrations}

ClaimedOrderAt(k) == IF IsDefined(tables[k].order) THEN tables[k].order[1] ELSE 999

\* the table at place i is processed before the table at place j
Precedes(i, j) ==
  \/ ClaimedOrderAt(i) < ClaimedOrderAt(j)
  \/ ClaimedOrderAt(i) = ClaimedOrderAt(j) /\ i < j

\* the position of the table at place k in the claimed sequence
RankOf(k) == 1 + Cardinality({i \in ActivePlaces : Precedes(i, k)})

\* the claimed sequence of the active tables
ClaimedSequence ==
  [r \in 1..Cardinality(ActivePlaces) |-> tables[CHOOSE k \in ActivePlaces : RankOf(k) = r]]

\* the position in a sequence of tables of the table of a name
PositionOf(seq, name) == CHOOSE r \in 1..Len(seq) : seq[r].modelName = name

C21_ProcessedInStableOrder ==
  Returned =>
    \A seq \in {ClaimedSequence} :
      \A stmts \in {Executable(Last.code.up)} :
        /\ activeTables = seq
        /\ \A i, j \in 1..Len(stmts) :
             i < j => PositionOf(seq, stmts[i].table) < PositionOf(seq, stmts[j].table)
        /\ FreshMode =>
             [k \in 1..Len(stmts) |-> stmts[k].table]
               = [k \in 1..Len(seq) |-> seq[k].modelName]

\* a provisioned run has returned a statement for each of three tables, of
\* which two have the same order and two are declared against their order
C21_Witness ==
  /\ Returned
  /\ ProvisionedMode
  /\ Len(Executable(Last.code.up)) = 3
  /\ \E i, j \in ActivePlaces : i < j /\ ClaimedOrderAt(i) = ClaimedOrderAt(j)
  /\ \E i, j \in ActivePlaces : i < j /\ ClaimedOrderAt(i) > ClaimedOrderAt(j)

(***************************************************************************)
(* C22 (as stated): in provisioned mode, every alteration of `up` has      *)
(* exactly one inverse alteration in `down` for the same table, which      *)
(* drops exactly the set of columns the alteration adds; the inverse       *)
(* alterations come in the order of their alterations and after every      *)
(* table drop.                                                             *)
(***************************************************************************)
IsAlteration(it) == it.t = "alterTable" /\ ~it.comment
IsColumnDrop(it) == it.t = "dropColumns" /\ ~it.comment
IsTableDrop(it) == it.t = "dropTable" /\ ~it.comment

\* every column an artifact adds to an existing table has a name
AddsNamedColumns(a) ==
  \A it \in Range(a.code.up) :
    IsAlteration(it) => \A c \in 1..Len(it.cols) : it.cols[c].colName # << >>

\* stated for the runs whose added columns all have a name
C22_AlterationsInverted ==
  (Returned /\ ProvisionedMode /\ AddsNamedColumns(Last)) =>
      LET alters == SelectSeq(Last.code.up, IsAlteration)
          drops == SelectSeq(Last.code.down, IsColumnDrop)
          down == Last.code.down
      IN  /\ Len(drops) = Len(alters)
          /\ \A k \in 1..Len(alters) :
               k <= Len(drops) =>
                 /\ drops[k].table = alters[k].table
                 /\ Range(drops[k].names) = Range(AddedNames(alters[k]))
          /\ \A i, j \in 1..Len(down) :
               (IsTableDrop(down[i]) /\ IsColumnDrop(down[j])) => i < j

(***************************************************************************)
(* C23: a provisioned run that collected a statement or a warning returns  *)
(* a migration whose `up` has every creation and alteration before every   *)
(* warning, and whose `down` is the manual-rollback comment exactly when   *)
(* no inverse statement was collected, and is otherwise the collected      *)
(* inverse statements and nothing else.  A run that collected warnings and *)
(* no statement collected no inverse: it returns a migration with that     *)
(* comment as `down`, not the no-op artifact.                              *)
(***************************************************************************)
\* the provisioned run that has just returned collected something
NonEmptyDiff == Len(upStatements) > 0 \/ Len(warnings) > 0

WarningsOnly == Len(upStatements) = 0 /\ Len(warnings) > 0

C23_UpThenWarningsDownOrComment ==
  (Returned /\ ProvisionedMode /\ NonEmptyDiff) =>
      LET up == Last.code.up
          down == Last.code.down
      IN  /\ IsMigration(Last)
          /\ Executable(up) = upStatements
          /\ \A i, j \in 1..Len(up) :
               (IsExecutable(up[i]) /\ up[j].comment) => i < j
          /\ down = << NoRollbackItem >> <=> Len(downStatements) = 0
          /\ Len(downStatements) > 0 =>
               /\ down = downStatements
               /\ \A k \in 1..Len(down) : IsTableDrop(down[k]) \/ IsColumnDrop(down[k])
          /\ WarningsOnly => down = << NoRollbackItem >>

\* a provisioned run has returned that collected warnings and no statement
C23_Witness ==
  /\ Returned
  /\ ProvisionedMode
  /\ WarningsOnly
  /\ IsMigration(Last)
  /\ \E it \in Range(Last.code.up) : it.t = "warnColumn"

(***************************************************************************)
(* C24 (as stated): in either mode, when an active table A declares a      *)
(* foreign key to another active table B and the run creates both, the     *)
(* creation block of B precedes the creation block of A in `up`, and the   *)
(* drop of A precedes the drop of B in `down`.                             *)
(***************************************************************************)
\* table a declares a foreign key whose target is the table key of b
RefersTo(a, b) ==
  \E e \in Range(a.fields) :
    IsDefined(e.field.references) /\ e.field.references[1].model = b.key

\* the place in a body of the statement of a kind about a table
PlaceOf(body, kind, name) ==
  CHOOSE k \in 1..Len(body) : body[k].t = kind /\ ~body[k].comment /\ body[k].table = name

CreatedBoth(a, b) ==
  /\ Count(Last.code.up, "createTable", a.modelName) = 1
  /\ Count(Last.code.up, "createTable", b.modelName) = 1
  /\ Count(Last.code.down, "dropTable", a.modelName) = 1
  /\ Count(Last.code.down, "dropTable", b.modelName) = 1

C24_ReferencedTableCreatedFirst ==
  Returned =>
    \A a, b \in ActiveTables :
      (a # b /\ RefersTo(a, b) /\ CreatedBoth(a, b)) =>
        /\ PlaceOf(Last.code.up, "createTable", b.modelName)
             < PlaceOf(Last.code.up, "createTable", a.modelName)
        /\ PlaceOf(Last.code.down, "dropTable", a.modelName)
             < PlaceOf(Last.code.down, "dropTable", b.modelName)

(***************************************************************************)
(* C25 (as stated): for any schema description and any catalog, when the   *)
(* statements of the generated `up` are applied to the catalog, the next   *)
(* run against the resulting catalog and the same schema emits no creation *)
(* block and no alteration statement.                                      *)
(***************************************************************************)
\* the run that has just returned followed the migration of the run before
ReturnedAfterMigration == Returned /\ Len(returned) >= 2

C25_SecondRunEmitsNothing ==
  ReturnedAfterMigration => Executable(Last.code.up) = << >>

(***************************************************************************)
(* C25 (amended): when the resulting catalog has a table named `user`      *)
(* (the schema has an active table of that name, or the catalog had one),  *)
(* the next run emits no creation block and no alteration statement.       *)
(***************************************************************************)
C25_SecondRunEmitsNothingWhenProvisioned ==
  (ReturnedAfterMigration /\ N_user \in db.tables) => Executable(Last.code.up) = << >>

\* the migration of a run that created a table and added columns to another
\* has been applied, and the next run has returned
C25_Witness ==
  /\ ReturnedAfterMigration
  /\ N_user \in db.tables
  /\ \E it \in Range(returned[1].code.up) : it.t = "createTable" /\ ~it.comment
  /\ \E it \in Range(returned[1].code.up) : it.t = "alterTable" /\ ~it.comment

(***************************************************************************)
(* C26 (as stated): `down` never drops a table that was in the catalog     *)
(* when the run started, and never drops a column that the catalog already *)
(* had for its table: `down` removes only what `up` creates.               *)
(***************************************************************************)
DropsOnlyWhatIsNew(a) ==
  \A it \in Range(a.code.down) :
    /\ IsTableDrop(it) => it.table \notin db.tables
    /\ IsColumnDrop(it) => \A n \in Range(it.names) : n \notin CatalogColumns(it.table)

\* stated for the provisioned runs
C26_DownDropsOnlyWhatUpCreates ==
  (Returned /\ ProvisionedMode) => DropsOnlyWhatIsNew(Last)

(***************************************************************************)
(* C27 (as stated): in either mode, `up` never has a creation block for a  *)
(* table whose name is in the catalog's table set, never adds a column the *)
(* catalog already lists for that table, and each active table definition  *)
(* contributes at most one statement to `up`.                              *)
(***************************************************************************)
UpAddsOnlyWhatIsMissing(a) ==
  \A it \in Range(a.code.up) :
    /\ (it.t = "createTable" /\ ~it.comment) => it.table \notin db.tables
    /\ IsExecutable(it) =>
         \A c \in 1..Len(it.cols) : it.cols[c].colName \notin CatalogColumns(it.table)

AtMostOneStatementPerTable(a) ==
  \A t \in ActiveTables :
    Cardinality({k \in 1..Len(a.code.up) :
                   IsExecutable(a.code.up[k]) /\ a.code.up[k].table = t.modelName}) <= 1

C27_UpOnlyAddsWhatIsMissing ==
  Returned => (UpAddsOnlyWhatIsMissing(Last) /\ AtMostOneStatementPerTable(Last))

(***************************************************************************)
(* C27 (amended): in provisioned mode `up` never has a creation block for  *)
(* a table of the catalog and never adds a column the catalog lists for    *)
(* that table; in either mode each active table definition contributes at  *)
(* most one statement to `up`.  (A fresh run creates every active table,   *)
(* whatever the catalog holds besides the absent `user`.)                  *)
(***************************************************************************)
C27_ProvisionedUpOnlyAddsWhatIsMissing ==
  Returned =>
    /\ AtMostOneStatementPerTable(Last)
    /\ ProvisionedMode => UpAddsOnlyWhatIsMissing(Last)

\* a provisioned run has returned that creates a table and adds a column to
\* a table of which the catalog lists another declared column
C27_Witness ==
  /\ Returned
  /\ ProvisionedMode
  /\ \E it \in Range(Last.code.up) : it.t = "createTable" /\ ~it.comment
  /\ \E it \in Range(Last.code.up) :
       /\ it.t = "alterTable" /\ ~it.comment
       /\ \E t \in ActiveTables :
            /\ t.modelName = it.table
            /\ \E e \in Range(t.fields) :
                 e.key # N_id /\ getColumnName(e.key, e.field) \in CatalogColumns(it.table)

====
